---- MODULE Spec2Model ----
(***************************************************************************)
(* Model of cmd/argo/commands/root.go: the root command of the argo CLI,   *)
(* its persistent flags, the PersistentPreRun hook and                     *)
(* printVersionMismatchWarning.                                            *)
(*                                                                         *)
(* One behaviour is one process invocation: the flags are parsed, the      *)
(* hook runs (override, logging sink, version check), then the selected    *)
(* command body runs.                                                      *)
(***************************************************************************)
EXTENDS Integers, Sequences, FiniteSets, TLC

\* ------------------------------------------------------------------ bounds
\* explicit --gloglevel values range over 0..MaxGLogLevel
MaxGLogLevel == 3

\* ------------------------------------------------------- program constants
CLIName == "argo"

DefaultLogLevel == "info"

DefaultGLogLevel == 0

DefaultVerbose == FALSE

VerboseLogLevel == "debug"

VerboseGLogLevel == 6

ServerEnvVar == "ARGO_SERVER"

\* ------------------------------------------------------------ input spaces
LogLevels == {"debug", "info", "warn", "error"}

GLogLevels == 0..MaxGLogLevel

\* the root command and two of the registered subcommands
Commands == {CLIName, "version", "list"}

\* values ARGO_SERVER can carry when it is present
ServerValues == {"", "localhost:2746"}

\* the process environment: a function from the names that are set
Environments == {<<>>} \cup {[n \in {ServerEnvVar} |-> v] : v \in ServerValues}

\* version identifiers (GitTag)
Tags == {"v3.4.0", "v3.3.8"}

\* errors NewInfoServiceClient can return
ClientErrors == {"no configuration has been provided"}

\* errors GetVersion can return
VersionErrors == {"connection refused", "unauthenticated", "deadline exceeded", "context canceled"}

\* a flag is absent (<<>>) or given once (<<value>>)
Opt(S) == {<<>>} \cup {<<x>> : x \in S}

Argv == [cmd : Commands, loglevel : Opt(LogLevels), gloglevel : Opt(GLogLevels), verbose : Opt(BOOLEAN)]

VARIABLES
  pc,              \* position of the single thread of control
  env,             \* process environment
  argv,            \* command line
  localTag,        \* argo.GetVersion().GitTag of this build
  logLevel,        \* var logLevel string
  glogLevel,       \* var glogLevel int
  verbose,         \* var verbose bool
  sinkLogLevel,    \* last value given to cli.SetLogLevel ("unset" before)
  sinkGLogLevel,   \* last value given to cmdutil.SetGLogLevel (-1 before)
  checkerRuns,     \* calls of printVersionMismatchWarning
  factoryCalls,    \* calls of client.NewAPIClient
  getVersionCalls, \* GetVersion requests issued
  compares,        \* evaluations of the GitTag comparison
  clientErr,       \* err of NewInfoServiceClient ("unset" before, "nil" on success)
  versionErr,      \* err of GetVersion ("unset" before, "nil" on success)
  remoteTag,       \* serverVersion.GitTag (<<>> while there is no serverVersion)
  warnings,        \* log.Warnf lines, in order
  outcome,         \* how printVersionMismatchWarning ended ("none" before)
  events,          \* startup events, in order
  bodiesRun,       \* command bodies executed
  helpPrinted,     \* the help function was called
  exitCode         \* exit status of the process

vars == <<pc, env, argv, localTag, logLevel, glogLevel, verbose, sinkLogLevel,
          sinkGLogLevel, checkerRuns, factoryCalls, getVersionCalls, compares,
          clientErr, versionErr, remoteTag, warnings, outcome, events,
          bodiesRun, helpPrinted, exitCode>>

flagState == <<logLevel, glogLevel, verbose>>

checkerState == <<checkerRuns, factoryCalls, getVersionCalls, compares,
                  clientErr, versionErr, remoteTag, warnings, outcome>>

inputs == <<env, argv, localTag>>

\* ----------------------------------------------------------------- helpers
\* a flag's value after parsing: the given value, or the declared default
FlagValue(opt, default) == IF opt = <<>> THEN default ELSE opt[1]

\* os.LookupEnv: ok is true when the name is present, whatever its value
LookupEnv_NonEmpty(e, name) == name \in DOMAIN e /\ e[name] # ""

LookupEnv(e, name) == name \in DOMAIN e

\* if verbose { logLevel = "debug" }
EffectiveLogLevel_Always(v, l) == VerboseLogLevel

EffectiveLogLevel(v, l) == IF v THEN VerboseLogLevel ELSE l

\* if verbose { glogLevel = 6 }
EffectiveGLogLevel_NoOverride(v, g) == g

EffectiveGLogLevel(v, g) == IF v THEN VerboseGLogLevel ELSE g

\* serverVersion.GitTag != argo.GetVersion().GitTag
VersionsDiffer_Inverted(server, local) == server = local

VersionsDiffer(server, local) == server # local

Warning(kind, err, local, remote) == [kind |-> kind, err |-> err, local |-> local, remote |-> remote]

\* where control goes when printVersionMismatchWarning returns from a stage:
\* every return goes back to the hook, which ends, and the command body is next
ReturnTo_Fatal(stage) == IF stage \in {"client", "getversion"} THEN "exit" ELSE "run"

ReturnTo_ClientFallThrough(stage) == IF stage = "client" THEN "getversion" ELSE "run"

ReturnTo_VersionFallThrough(stage) == IF stage = "getversion" THEN "compare" ELSE "run"

ReturnTo_Retry(stage) == IF stage = "getversion" THEN "getversion" ELSE "run"

ReturnTo(stage) == "run"

\* -------------------------------------------------------------------- Init
Init ==
  /\ pc = "start"
  /\ env \in Environments
  /\ argv \in Argv
  /\ localTag \in Tags
  /\ logLevel = DefaultLogLevel
  /\ glogLevel = DefaultGLogLevel
  /\ verbose = DefaultVerbose
  /\ sinkLogLevel = "unset"
  /\ sinkGLogLevel = -1
  /\ checkerRuns = 0
  /\ factoryCalls = 0
  /\ getVersionCalls = 0
  /\ compares = 0
  /\ clientErr = "unset"
  /\ versionErr = "unset"
  /\ remoteTag = <<>>
  /\ warnings = <<>>
  /\ outcome = "none"
  /\ events = <<>>
  /\ bodiesRun = 0
  /\ helpPrinted = FALSE
  /\ exitCode = 0

\* ----------------------------------------------------------------- actions
\* the framework parses argv into the variables bound by the persistent flags
ParseFlags ==
  /\ pc = "start"
  /\ logLevel' = FlagValue(argv.loglevel, DefaultLogLevel)
  /\ glogLevel' = FlagValue(argv.gloglevel, DefaultGLogLevel)
  /\ verbose' = FlagValue(argv.verbose, DefaultVerbose)
  /\ events' = Append(events, "parse")
  /\ pc' = "parsed"
  /\ UNCHANGED <<inputs, sinkLogLevel, sinkGLogLevel, checkerState, bodiesRun,
                 helpPrinted, exitCode>>

\* the hook with the version check moved in front of the logging setup
PersistentPreRun_CheckFirst ==
  /\ pc = "parsed"
  /\ logLevel' = EffectiveLogLevel(verbose, logLevel)
  /\ glogLevel' = EffectiveGLogLevel(verbose, glogLevel)
  /\ sinkLogLevel' = logLevel'
  /\ sinkGLogLevel' = glogLevel'
  /\ checkerRuns' = checkerRuns + 1
  /\ IF LookupEnv(env, ServerEnvVar)
       THEN /\ pc' = "newclient"
            /\ outcome' = outcome
            /\ events' = events \o <<"checker", "setLogLevel", "setGLogLevel">>
       ELSE /\ pc' = ReturnTo("applicability")
            /\ outcome' = "skipped"
            /\ events' = events \o <<"checker", "setLogLevel", "setGLogLevel", "hookReturn">>
  /\ UNCHANGED <<inputs, verbose, factoryCalls, getVersionCalls, compares,
                 clientErr, versionErr, remoteTag, warnings, bodiesRun,
                 helpPrinted, exitCode>>

\* PersistentPreRun up to the first call that leaves the process: the verbose
\* override, the logging sink, and the ARGO_SERVER lookup that opens
\* printVersionMismatchWarning
PersistentPreRun ==
  /\ pc = "parsed"
  /\ logLevel' = EffectiveLogLevel(verbose, logLevel)
  /\ glogLevel' = EffectiveGLogLevel(verbose, glogLevel)
  /\ sinkLogLevel' = logLevel'
  /\ sinkGLogLevel' = glogLevel'
  /\ checkerRuns' = checkerRuns + 1
  /\ IF LookupEnv(env, ServerEnvVar)
       THEN /\ pc' = "newclient"
            /\ outcome' = outcome
            /\ events' = events \o <<"setLogLevel", "setGLogLevel", "checker">>
       ELSE /\ pc' = ReturnTo("applicability")
            /\ outcome' = "skipped"
            /\ events' = events \o <<"setLogLevel", "setGLogLevel", "checker", "hookReturn">>
  /\ UNCHANGED <<inputs, verbose, factoryCalls, getVersionCalls, compares,
                 clientErr, versionErr, remoteTag, warnings, bodiesRun,
                 helpPrinted, exitCode>>

\* client.NewAPIClient, apiClient.NewInfoServiceClient and the err check
NewInfoServiceClient ==
  /\ pc = "newclient"
  /\ factoryCalls' = factoryCalls + 1
  /\ \E err \in {"nil"} \cup ClientErrors :
       /\ clientErr' = err
       /\ IF err # "nil"
            THEN /\ warnings' = Append(warnings, Warning("client", err, "", ""))
                 /\ outcome' = "check-failed"
                 /\ events' = events \o <<"newClient", "hookReturn">>
                 /\ pc' = ReturnTo("client")
            ELSE /\ warnings' = warnings
                 /\ outcome' = outcome
                 /\ events' = Append(events, "newClient")
                 /\ pc' = "getversion"
  /\ UNCHANGED <<inputs, flagState, sinkLogLevel, sinkGLogLevel, checkerRuns,
                 getVersionCalls, compares, versionErr, remoteTag, bodiesRun,
                 helpPrinted, exitCode>>

\* serviceClient.GetVersion and the err check
GetVersion ==
  /\ pc = "getversion"
  /\ getVersionCalls' = getVersionCalls + 1
  /\ \/ \E err \in VersionErrors :
          /\ versionErr' = err
          /\ remoteTag' = remoteTag
          /\ warnings' = Append(warnings, Warning("connect", err, "", ""))
          /\ outcome' = "check-failed"
          /\ events' = events \o <<"getVersion", "hookReturn">>
          /\ pc' = ReturnTo("getversion")
     \/ \E tag \in Tags :
          /\ versionErr' = "nil"
          /\ remoteTag' = <<tag>>
          /\ warnings' = warnings
          /\ outcome' = outcome
          /\ events' = Append(events, "getVersion")
          /\ pc' = "compare"
  /\ UNCHANGED <<inputs, flagState, sinkLogLevel, sinkGLogLevel, checkerRuns,
                 factoryCalls, compares, clientErr, bodiesRun, helpPrinted,
                 exitCode>>

\* the GitTag comparison and the mismatch warning
CompareVersions ==
  /\ pc = "compare"
  /\ compares' = compares + 1
  /\ IF VersionsDiffer(remoteTag, <<localTag>>)
       THEN /\ warnings' = Append(warnings,
                 Warning("mismatch", "", <<localTag>>, remoteTag))
            /\ outcome' = "mismatch"
       ELSE /\ warnings' = warnings
            /\ outcome' = "match"
  /\ events' = events \o <<"compare", "hookReturn">>
  /\ pc' = ReturnTo("compare")
  /\ UNCHANGED <<inputs, flagState, sinkLogLevel, sinkGLogLevel, checkerRuns,
                 factoryCalls, getVersionCalls, clientErr, versionErr,
                 remoteTag, bodiesRun, helpPrinted, exitCode>>

\* a root body that asks the server for its version before printing help
RootRun_Network ==
  /\ pc = "run"
  /\ argv.cmd = CLIName
  /\ helpPrinted' = TRUE
  /\ getVersionCalls' = getVersionCalls + 1
  /\ bodiesRun' = bodiesRun + 1
  /\ events' = Append(events, "body")
  /\ pc' = "done"
  /\ UNCHANGED <<inputs, flagState, sinkLogLevel, sinkGLogLevel, checkerRuns,
                 factoryCalls, compares, clientErr, versionErr, remoteTag,
                 warnings, outcome, exitCode>>

\* the root command's Run: cmd.HelpFunc()(cmd, args)
RootRun ==
  /\ pc = "run"
  /\ argv.cmd = CLIName
  /\ helpPrinted' = TRUE
  /\ bodiesRun' = bodiesRun + 1
  /\ events' = Append(events, "body")
  /\ pc' = "done"
  /\ UNCHANGED <<inputs, flagState, sinkLogLevel, sinkGLogLevel, checkerState,
                 exitCode>>

\* the body of a registered subcommand; it alone decides the exit status
SubcommandRun ==
  /\ pc = "run"
  /\ argv.cmd # CLIName
  /\ bodiesRun' = bodiesRun + 1
  /\ events' = Append(events, "body")
  /\ \E code \in {0, 1} : exitCode' = code
  /\ pc' = "done"
  /\ UNCHANGED <<inputs, flagState, sinkLogLevel, sinkGLogLevel, checkerState,
                 helpPrinted>>

Next ==
  \/ ParseFlags
  \/ PersistentPreRun
  \/ NewInfoServiceClient
  \/ GetVersion
  \/ CompareVersions
  \/ RootRun
  \/ SubcommandRun

Spec == Init /\ [][Next]_vars

\* the process is one sequential thread: it keeps running until it ends
FairSpec == Spec /\ WF_vars(Next)

\* ------------------------------------------------------------------ claims
ServerSet == ServerEnvVar \in DOMAIN env

HookReturned == pc \in {"run", "done"}

\* C1: whatever the outcome of the version check (skipped, failed on client
\* construction, failed on the remote call, match, mismatch), the process is
\* not aborted, the exit status is untouched when the hook returns, and the
\* selected command body then runs.
Thm_C1 ==
  /\ [](outcome # "none" =>
          /\ HookReturned
          /\ (pc = "run" => exitCode = 0 /\ bodiesRun = 0)
          /\ (pc = "done" => bodiesRun = 1))
  /\ (outcome # "none" ~> (pc = "done" /\ bodiesRun = 1))

Wit_C1 ==
  /\ pc = "done"
  /\ outcome = "check-failed"
  /\ versionErr \in VersionErrors
  /\ bodiesRun = 1

\* C2 as stated: once parsing is over, verbose = TRUE implies
\* logLevel = "debug" and glogLevel = 6.
Orig_C2 ==
  (pc # "start" /\ verbose) =>
     (logLevel = VerboseLogLevel /\ glogLevel = VerboseGLogLevel)

\* C2 amended: once the pre-run hook has taken its first step, verbose = TRUE
\* implies logLevel = "debug" and glogLevel = 6, whatever --loglevel and
\* --gloglevel said, and these are the values the logging sink received.
Thm_C2 ==
  (pc \notin {"start", "parsed"} /\ verbose) =>
     /\ logLevel = "debug"
     /\ glogLevel = 6
     /\ sinkLogLevel = "debug"
     /\ sinkGLogLevel = 6

Wit_C2 ==
  /\ pc = "done"
  /\ verbose
  /\ argv.loglevel = <<"warn">>
  /\ argv.gloglevel = <<2>>
  /\ sinkLogLevel = "debug"
  /\ sinkGLogLevel = 6

\* C3: the client factory is called exactly when ARGO_SERVER is present in
\* the environment, whatever its value; when it is absent the check is
\* skipped with no factory call, no request and no warning.
Thm_C3 ==
  /\ (pc \notin {"start", "parsed"} /\ ~ServerSet) =>
        /\ outcome = "skipped"
        /\ factoryCalls = 0
        /\ getVersionCalls = 0
        /\ warnings = <<>>
  /\ HookReturned => (factoryCalls = 1 <=> ServerSet)
  /\ outcome = "skipped" => ~ServerSet

Wit_C3 ==
  /\ pc = "done"
  /\ ServerSet
  /\ env[ServerEnvVar] = ""
  /\ argv.verbose = <<>>
  /\ factoryCalls = 1

\* C4: when ARGO_SERVER is set and client construction returns an error,
\* exactly one warning is logged (it carries the error), no GetVersion
\* request is issued, and the hook returns.
Thm_C4 ==
  clientErr \in ClientErrors =>
     /\ ServerSet
     /\ warnings = <<Warning("client", clientErr, "", "")>>
     /\ getVersionCalls = 0
     /\ versionErr = "unset"
     /\ outcome = "check-failed"
     /\ HookReturned

Wit_C4 ==
  /\ pc = "done"
  /\ clientErr \in ClientErrors
  /\ Len(warnings) = 1

\* C5: when the client is constructed and GetVersion fails, exactly one
\* warning is logged and it carries the error, no comparison is made, no
\* mismatch warning is logged, and the outcome is check-failed.
Thm_C5 ==
  versionErr \in VersionErrors =>
     /\ clientErr = "nil"
     /\ warnings = <<Warning("connect", versionErr, "", "")>>
     /\ compares = 0
     /\ remoteTag = <<>>
     /\ outcome = "check-failed"
     /\ HookReturned

Wit_C5 ==
  /\ pc = "done"
  /\ versionErr = "context canceled"
  /\ Len(warnings) = 1

\* C6: when the remote call succeeds, equal identifiers give outcome match
\* and no warning; different identifiers give outcome mismatch and exactly
\* one warning naming the local and the remote identifier.
Thm_C6 ==
  (versionErr = "nil" /\ HookReturned) =>
     IF remoteTag[1] = localTag
       THEN outcome = "match" /\ warnings = <<>>
       ELSE /\ outcome = "mismatch"
            /\ Len(warnings) = 1
            /\ warnings[1].kind = "mismatch"
            /\ warnings[1].local = <<localTag>>
            /\ warnings[1].remote = remoteTag

Wit_C6 ==
  /\ pc = "done"
  /\ localTag = "v3.4.0"
  /\ remoteTag = <<"v3.3.8">>
  /\ outcome = "mismatch"
  /\ Len(warnings) = 1

\* C7: in one invocation the version check runs at most once, the client
\* factory is called at most once, at most one GetVersion request is issued
\* and at most one warning is logged.
Thm_C7 ==
  /\ checkerRuns <= 1
  /\ factoryCalls <= 1
  /\ getVersionCalls <= 1
  /\ compares <= 1
  /\ Len(warnings) <= 1

Wit_C7 ==
  /\ pc = "done"
  /\ checkerRuns = 1
  /\ factoryCalls = 1
  /\ getVersionCalls = 1
  /\ versionErr \in VersionErrors
  /\ Len(warnings) = 1

\* position of a startup event in the fixed order
Rank(e) ==
  CASE e = "parse" -> 1
    [] e = "setLogLevel" -> 2
    [] e = "setGLogLevel" -> 3
    [] e = "checker" -> 4
    [] e = "newClient" -> 5
    [] e = "getVersion" -> 6
    [] e = "compare" -> 7
    [] e = "hookReturn" -> 8
    [] e = "body" -> 9

Occurs(e) == \E i \in 1..Len(events) : events[i] = e

\* C8: startup events happen in a fixed order: parsing, then the log level,
\* then the version check and its calls, then the end of the hook, then the
\* command body; a finished run has parsed once, set the log level, run the
\* check, left the hook and run exactly one body.
Thm_C8 ==
  /\ \A i, j \in 1..Len(events) : i < j => Rank(events[i]) < Rank(events[j])
  /\ pc = "done" =>
        /\ Occurs("parse")
        /\ Occurs("setLogLevel")
        /\ Occurs("setGLogLevel")
        /\ Occurs("checker")
        /\ Occurs("hookReturn")
        /\ events[Len(events)] = "body"
        /\ bodiesRun = 1

Wit_C8 ==
  /\ pc = "done"
  /\ events = <<"parse", "setLogLevel", "setGLogLevel", "checker", "newClient",
                "getVersion", "compare", "hookReturn", "body">>

\* C9: the body of the root command prints help and makes no client-factory
\* call, no request and no comparison, also when ARGO_SERVER is set.
Thm_C9 ==
  [][(pc = "run" /\ argv.cmd = CLIName) =>
        /\ helpPrinted'
        /\ UNCHANGED <<checkerRuns, factoryCalls, getVersionCalls, compares,
                       warnings, outcome, exitCode>>]_vars

Wit_C9 ==
  /\ pc = "done"
  /\ argv.cmd = CLIName
  /\ ServerSet
  /\ helpPrinted
  /\ getVersionCalls = 1

\* C10 as stated: after parsing nothing modifies logLevel, glogLevel or
\* verbose.
Orig_C10 == [][pc # "start" => UNCHANGED flagState]_vars

\* C10 amended: the flag state starts at "info", 0, FALSE and is set by
\* parsing; afterwards verbose is never modified, and logLevel and glogLevel
\* are modified only by the first step of the pre-run hook and only when
\* verbose is TRUE, which overwrites them with "debug" and 6.
Thm_C10 ==
  /\ [](pc = "start" => logLevel = "info" /\ glogLevel = 0 /\ verbose = FALSE)
  /\ [][pc # "start" =>
          /\ verbose' = verbose
          /\ (~verbose \/ pc # "parsed") => UNCHANGED <<logLevel, glogLevel>>
          /\ (verbose /\ pc = "parsed") => (logLevel' = "debug" /\ glogLevel' = 6)]_vars

Wit_C10 ==
  /\ pc = "done"
  /\ argv.verbose = <<TRUE>>
  /\ verbose
  /\ argv.loglevel = <<"error">>
  /\ logLevel = "debug"
  /\ argv.gloglevel = <<1>>
  /\ glogLevel = 6

====
